---- MODULE Spec2Model ----
(***************************************************************************)
(* The corpus evaluation pipeline of tectonic-on-arXiv:                    *)
(*   report_ci.py        the worker-pool pipeline (queue, 5 threads, lock) *)
(*   report.py           the sequential two-engine pipeline                *)
(*   prepare_dataset.py  the preparation pass (TestEnv only)               *)
(* The variable `program` says which entry point a behaviour runs.         *)
(***************************************************************************)
EXTENDS Integers, Sequences, FiniteSets, TLC

(* ------------------------------ bounds -------------------------------- *)
\* largest corpus (number of sample files) of a pipeline run
MaxSamples == 2
\* largest number of members of a tar archive
MaxMembers == 2
\* largest number of entries of a workspace root given to get_maindoc
MaxFiles == 3
\* largest number of capture_files calls in a row
MaxCalls == 3
\* longest compiler log given to get_tags, in text fragments
MaxLogLen == 3

(* ------------------------- program constants -------------------------- *)
num_worker_threads == 5
TIMEOUT_STATUS == -99999
WITHDRAWN_SIZE == 100

Workers == 1..num_worker_threads
\* the queue's shutdown sentinel (`None`); samples are numbered from 1
NoItem == 0
\* exit codes a compiler subprocess that ends in time may return
ReturnCodes == {0, 1}
SampleStems == <<"s1", "s2", "s3", "s4", "s5", "s6", "s7", "s8">>

(* ------------------------------ files --------------------------------- *)
\* A file's bytes, by what the programs observe of them: the sniffed MIME
\* type, whether the marker \documentclass occurs, and an id for the rest.
Content(mime, marker, id) == [mime |-> mime, marker |-> marker, id |-> id]
File(stem, suffix, content) ==
    [name |-> <<stem, suffix>>, is_file |-> TRUE, content |-> content]
Dir(stem) ==
    [name |-> <<stem, "">>, is_file |-> FALSE, content |-> Content("inode/directory", FALSE, "dir")]

\* sha256sum(f)[:16]: equal bytes give equal digests; distinct bytes are
\* taken to give distinct 16-digit prefixes (no collision within a corpus).
sha256sum16(content) == [sha |-> content]

TexMain  == Content("text/x-tex", TRUE, "main")
TexPart  == Content("text/x-tex", FALSE, "part")
TarBlob  == Content("application/x-tar", FALSE, "tar")
LogOk    == Content("text/plain", FALSE, "log0")
LogFail  == Content("text/plain", FALSE, "log1")
PdfOf(stem) == Content("application/pdf", FALSE, stem)

(* ----------------------------- samples -------------------------------- *)
\* A sample file of the corpus: its byte size, what its bytes are
\* ("tar": gzip of a tar whose members stay inside the workspace, "flat":
\* gzip of one document, "evil": gzip of a tar with an entry safe_extract
\* rejects, "tarlog": gzip of a tar that also ships the log of an earlier
\* compile, "notgzip": not gzip at all), its entry in <corpus>.json
\* ("none": absent, "stem": the document named like the sample, "main":
\* main.tex) and the top-level listing its extraction leaves.
Profile(size, payload, entry) == [size |-> size, payload |-> payload, entry |-> entry]
Profiles ==
    { Profile(200, "tar", "main"),
      Profile(200, "notgzip", "main"),
      Profile(50, "notgzip", "none") }

Corpora == UNION { [1..k -> Profiles] : k \in 1..MaxSamples }

VARIABLES
    program,        \* "report_ci" | "report": the script being run
    corpus,         \* Path(corpus).iterdir(), in enumeration order
    mainpc,         \* position of the main thread
    mainidx,        \* loop counter of the main thread's current loop
    mainexc,        \* exception that ended the main thread, or "none"
    work,           \* queue.Queue(): items not yet taken
    unfinished,     \* the queue's unfinished_tasks counter
    outlock,        \* threading.Lock(): its holder, or 0
    wpc,            \* position of each worker thread
    witem,          \* the item each worker took last
    wreport,        \* the report each worker got from do_work
    wexc,           \* exception that ended each worker, or "none"
    logstate,       \* reportlog: "unopened" | "open" | "closed"
    logbuf,         \* reportlog: lines written and not yet flushed
    logfile,        \* reportlog: lines in the file
    tmpdirs,        \* workspaces (mkdtemp directories) that exist
    objects,        \* the object store: name -> content
    CAPTURE_EXCLUDE,\* report.py's process-wide digest set
    mreport,        \* report.py: the report dict being assembled
    members,        \* TestEnv.__init__: tar.getmembers(), the member names
    xpc,            \* TestEnv.__init__: position in the extraction
    xi,             \* TestEnv.__init__: index of the member at hand
    fs,             \* paths of the files the extraction has created
    dir,            \* get_maindoc: p.iterdir(), in enumeration order
    mdpc,           \* get_maindoc: "call" | "returned"
    mdres,          \* get_maindoc: what the call came to
    ncalls,         \* capture_files: calls made so far
    captured,       \* capture_files: the map the last capture call returned
    baseline,       \* capture_files: the set the last as_set call returned
    basedir,        \* capture_files: the directory of the last baseline call
    lastcall,       \* capture_files: mode, directory and exclusion of the last call
    logpath,        \* get_tags: the log file p, whether it exists and its text
    tgpc,           \* get_tags: "idle" | "call" | "returned"
    tags,           \* get_tags: the list the call returned
    wdir,           \* do_work: each worker's listing of its workspace d
    wexcluded,      \* do_work: each worker's `excluded` set
    wstatuscode,    \* do_work: each worker's `statuscode`
    wi,             \* capture_files: each worker's position in d.iterdir()
    wcaptured,      \* capture_files: each worker's `captured` so far
    opens,          \* object store: times each name was opened for writing
    sealed          \* object store: names whose copy has been completed

vars == <<program, corpus, mainpc, mainidx, mainexc, work, unfinished, outlock,
          wpc, witem, wreport, wexc, logstate, logbuf, logfile, tmpdirs,
          objects, CAPTURE_EXCLUDE, mreport, members, xpc, xi, fs,
          dir, mdpc, mdres, ncalls, captured, baseline, basedir, lastcall,
          logpath, tgpc, tags,
          wdir, wexcluded, wstatuscode, wi, wcaptured, opens, sealed>>

\* the state of the pipelines, of a single extraction, of a single
\* get_maindoc call, and of a sequence of capture_files calls
pipevars == <<corpus, mainpc, mainidx, mainexc, work, unfinished, outlock,
              wpc, witem, wreport, wexc, logstate, logbuf, logfile, tmpdirs,
              objects, CAPTURE_EXCLUDE, mreport>>
xvars == <<members, xpc, xi, fs>>
mdvars == <<dir, mdpc, mdres>>
cpvars == <<ncalls, captured, baseline, basedir, lastcall>>
tgvars == <<logpath, tgpc, tags>>
\* the state of the workers' capture_files calls, followed file by file
stvars == <<wdir, wexcluded, wstatuscode, wi, wcaptured, opens, sealed>>
fnvars == <<xvars, mdvars, cpvars, tgvars, stvars>>

Stem(s) == SampleStems[s]
\* json.load of <corpus>.json: sample stem -> entry document name
InMap(s) == corpus[s].entry # "none"
sample_maindoc(s) ==
    IF corpus[s].entry = "stem" THEN <<Stem(s), "">> ELSE <<"main", ".tex">>

MetaLine == [meta |-> TRUE, sample |-> "", statuscode |-> 0, results |-> <<>>, xelatex |-> 0]
NoReport == [meta |-> FALSE, sample |-> "", statuscode |-> 0, results |-> <<>>, xelatex |-> 0]

(* -------------------------- TestEnv (report_ci) ----------------------- *)
\* What TestEnv.__init__ raises after mkdtemp, "none" when it returns.
TestEnvRaises_ci(p, is_tar) ==
    IF p.payload = "notgzip" THEN "BadGzipFile"
    ELSE IF ~is_tar THEN "none"
    ELSE IF p.payload = "flat" THEN "ReadError"
    ELSE IF p.payload = "evil" THEN "PathTraversal"
    ELSE "none"

\* the top-level listing a sample's tar archive extracts to
TarListing == <<File("main", ".tex", TexMain), File("part", ".tex", TexPart), Dir("figs")>>

\* the listing of sample p's archive: a "tarlog" archive also holds old.log
TarListingOf(p) ==
    IF p.payload = "tarlog" THEN TarListing \o <<File("old", ".log", LogOk)>>
    ELSE TarListing

\* magic.detect_from_filename(submission_data_path).mime_type == "application/x-tar"
SniffedTar(p) == p.payload \in {"tar", "tarlog", "evil"}

\* The workspace listing TestEnv.__init__ leaves when it returns.
TestEnvFiles_ci(p, stem, is_tar) ==
    IF is_tar THEN TarListingOf(p)
    ELSE <<File(stem, "", IF p.payload = "flat" THEN TexMain ELSE TarBlob)>>

\* The files a compiler run adds to the workspace.
CompilerOutputs(stem, returncode) ==
    IF returncode = 0 THEN <<File("main", ".pdf", PdfOf(stem)), File("main", ".log", LogOk)>>
    ELSE IF returncode = TIMEOUT_STATUS THEN <<>>
    ELSE <<File("main", ".log", LogFail)>>

(* ----------------------- capture_files (report_ci) -------------------- *)
ExcludedNone == [is_none |-> TRUE, digests |-> {}]
ExcludedDropped(S) == [is_none |-> TRUE, digests |-> S]
Excluded(S) == [is_none |-> FALSE, digests |-> S]

StoreIfAbsent(store, target, content) ==
    IF target \in DOMAIN store THEN store ELSE store @@ (target :> content)

RECURSIVE capture_loop_ci(_, _, _, _, _)
capture_loop_ci(d, i, excluded, as_set, acc) ==
    IF i > Len(d) THEN acc
    ELSE LET f == d[i]
             digest == sha256sum16(f.content)
             ext == IF f.name[2] = "" THEN ".bin" ELSE f.name[2]
             target == <<digest, ext>>
         IN IF ~f.is_file THEN capture_loop_ci(d, i + 1, excluded, as_set, acc)
            ELSE IF as_set THEN
                capture_loop_ci(d, i + 1, excluded, as_set,
                                [acc EXCEPT !.set = @ \cup {digest}])
            ELSE IF ~excluded.is_none /\ digest \in excluded.digests THEN
                capture_loop_ci(d, i + 1, excluded, as_set, acc)
            ELSE
                capture_loop_ci(d, i + 1, excluded, as_set,
                    [acc EXCEPT !.objects = StoreIfAbsent(@, target, f.content),
                                !.captured = (f.name :> target) @@ @])

\* capture_files(d, excluded, as_set) run against the object store `store`:
\* the returned map, the returned set and the store afterwards.
capture_files_ci(d, excluded, as_set, store) ==
    capture_loop_ci(d, 1, excluded, as_set,
                    [captured |-> <<>>, set |-> {}, objects |-> store])

(* ------------------------------ reportlog ----------------------------- *)
\* reportlog.write(line): the line goes to the file object's buffer
LogWrite(buf, line) == Append(buf, line)
LogFlushPrepend(file, buf) == buf \o file
\* reportlog.flush(): the buffered lines reach the file, in order
LogFlush(file, buf) == file \o buf

\* what a compiler subprocess may do: end with a return code, or run out
\* of its timeout (subprocess.TimeoutExpired)
RunOutcomes ==
    { [timeout |-> FALSE, returncode |-> rc] : rc \in ReturnCodes }
        \cup { [timeout |-> TRUE, returncode |-> 0] }

(* ------------------------ report_ci.py: main thread ------------------- *)
\* reportlog = open(reportpath, "w")
M_Open ==
    /\ mainpc = "open"
    /\ logstate' = "open"
    /\ logfile' = <<>>
    /\ logbuf' = <<>>
    /\ mainpc' = "write_meta"
    /\ UNCHANGED fnvars
    /\ UNCHANGED <<program, corpus, mainidx, mainexc, work, unfinished, outlock,
                   wpc, witem, wreport, wexc, tmpdirs, objects, CAPTURE_EXCLUDE, mreport>>

\* reportlog.write(json.dumps(meta) + "\n")
M_WriteMeta ==
    /\ mainpc = "write_meta"
    /\ logbuf' = LogWrite(logbuf, MetaLine)
    /\ mainpc' = "flush_meta"
    /\ UNCHANGED fnvars
    /\ UNCHANGED <<program, corpus, mainidx, mainexc, work, unfinished, outlock,
                   wpc, witem, wreport, wexc, logstate, logfile, tmpdirs,
                   objects, CAPTURE_EXCLUDE, mreport>>

\* reportlog.flush(); then the build, which touches none of this state
M_FlushMeta ==
    /\ mainpc = "flush_meta"
    /\ logfile' = LogFlush(logfile, logbuf)
    /\ logbuf' = <<>>
    /\ mainpc' = IF program = "report_ci" THEN "start" ELSE "loop"
    /\ mainidx' = 1
    /\ UNCHANGED fnvars
    /\ UNCHANGED <<program, corpus, mainexc, work, unfinished, outlock,
                   wpc, witem, wreport, wexc, logstate, tmpdirs,
                   objects, CAPTURE_EXCLUDE, mreport>>

\* for _ in range(num_worker_threads): t.start()
M_StartThread ==
    /\ mainpc = "start"
    /\ wpc' = [wpc EXCEPT ![mainidx] = "get"]
    /\ IF mainidx = num_worker_threads
       THEN mainpc' = "put" /\ mainidx' = 1
       ELSE mainpc' = mainpc /\ mainidx' = mainidx + 1
    /\ UNCHANGED fnvars
    /\ UNCHANGED <<program, corpus, mainexc, work, unfinished, outlock,
                   witem, wreport, wexc, logstate, logbuf, logfile, tmpdirs,
                   objects, CAPTURE_EXCLUDE, mreport>>

\* whether the enqueue loop puts corpus file s on the queue
Enqueued(s) == InMap(s)

\* one iteration of: for sample in Path(corpus).iterdir(): ... work.put(sample)
M_Put ==
    /\ mainpc = "put"
    /\ IF Enqueued(mainidx)
       THEN work' = Append(work, mainidx) /\ unfinished' = unfinished + 1
       ELSE UNCHANGED <<work, unfinished>>
    /\ IF mainidx = Len(corpus)
       THEN mainpc' = "join" /\ mainidx' = 1
       ELSE mainpc' = mainpc /\ mainidx' = mainidx + 1
    /\ UNCHANGED fnvars
    /\ UNCHANGED <<program, corpus, mainexc, outlock,
                   wpc, witem, wreport, wexc, logstate, logbuf, logfile, tmpdirs,
                   objects, CAPTURE_EXCLUDE, mreport>>

AllTasksDoneNoWait(n) == TRUE
\* Queue.join() blocks until the count of unfinished tasks is zero
AllTasksDone(n) == n = 0

\* work.join(): returns once every put has been matched by a task_done
M_Join ==
    /\ mainpc = "join"
    /\ AllTasksDone(unfinished)
    /\ mainpc' = "put_none"
    /\ mainidx' = 1
    /\ UNCHANGED fnvars
    /\ UNCHANGED <<program, corpus, mainexc, work, unfinished, outlock,
                   wpc, witem, wreport, wexc, logstate, logbuf, logfile, tmpdirs,
                   objects, CAPTURE_EXCLUDE, mreport>>

\* for i in range(num_worker_threads): work.put(None)
M_PutNone ==
    /\ mainpc = "put_none"
    /\ work' = Append(work, NoItem)
    /\ unfinished' = unfinished + 1
    /\ IF mainidx = num_worker_threads
       THEN mainpc' = "join_threads" /\ mainidx' = 1
       ELSE mainpc' = mainpc /\ mainidx' = mainidx + 1
    /\ UNCHANGED fnvars
    /\ UNCHANGED <<program, corpus, mainexc, outlock,
                   wpc, witem, wreport, wexc, logstate, logbuf, logfile, tmpdirs,
                   objects, CAPTURE_EXCLUDE, mreport>>

ThreadEndedNoWait(w) == TRUE
\* t.join() returns once thread t has ended (left its loop, or died)
ThreadEnded(w) == wpc[w] \in {"exited", "dead"}

\* for t in threads: t.join()
M_JoinThread ==
    /\ mainpc = "join_threads"
    /\ ThreadEnded(mainidx)
    /\ IF mainidx = num_worker_threads
       THEN mainpc' = "close" /\ mainidx' = 1
       ELSE mainpc' = mainpc /\ mainidx' = mainidx + 1
    /\ UNCHANGED fnvars
    /\ UNCHANGED <<program, corpus, mainexc, work, unfinished, outlock,
                   wpc, witem, wreport, wexc, logstate, logbuf, logfile, tmpdirs,
                   objects, CAPTURE_EXCLUDE, mreport>>

\* reportlog.close(): flushes what is buffered and closes
M_Close ==
    /\ mainpc = "close"
    /\ logfile' = LogFlush(logfile, logbuf)
    /\ logbuf' = <<>>
    /\ logstate' = "closed"
    /\ mainpc' = "done"
    /\ UNCHANGED fnvars
    /\ UNCHANGED <<program, corpus, mainidx, mainexc, work, unfinished, outlock,
                   wpc, witem, wreport, wexc, tmpdirs, objects, CAPTURE_EXCLUDE, mreport>>

(* ------------------------ report_ci.py: worker ------------------------ *)
\* item = work.get(); if item is None: break
W_Get(w) ==
    /\ wpc[w] = "get"
    /\ work # <<>>
    /\ work' = Tail(work)
    /\ IF Head(work) = NoItem
       THEN wpc' = [wpc EXCEPT ![w] = "exited"] /\ witem' = witem
       ELSE wpc' = [wpc EXCEPT ![w] = "do_work"]
            /\ witem' = [witem EXCEPT ![w] = Head(work)]
    /\ UNCHANGED fnvars
    /\ UNCHANGED <<program, corpus, mainpc, mainidx, mainexc, unfinished, outlock,
                   wreport, wexc, logstate, logbuf, logfile, tmpdirs,
                   objects, CAPTURE_EXCLUDE, mreport>>

\* is_tar=(maindoc != sample.stem)
is_tar_ci(s) == sample_maindoc(s) # <<Stem(s), "">>

\* maindoc = sample_maindoc[item.stem]; do_work up to TestEnv.__init__:
\* mkdtemp, then the extraction, which may raise out of do_work and the
\* thread (nothing in worker catches it)
W_TestEnv(w) ==
    /\ wpc[w] = "do_work"
    /\ LET s == witem[w]
           exc == TestEnvRaises_ci(corpus[s], is_tar_ci(s))
       IN /\ tmpdirs' = tmpdirs \cup {<<s, 1>>}
          /\ IF exc = "none"
             THEN wpc' = [wpc EXCEPT ![w] = "compile"] /\ wexc' = wexc
             ELSE wpc' = [wpc EXCEPT ![w] = "dead"]
                  /\ wexc' = [wexc EXCEPT ![w] = exc]
    /\ UNCHANGED fnvars
    /\ UNCHANGED <<program, corpus, mainpc, mainidx, mainexc, work, unfinished,
                   outlock, witem, wreport, logstate, logbuf, logfile,
                   objects, CAPTURE_EXCLUDE, mreport>>

\* try: statuscode = test.returncode / except TimeoutExpired: -99999
statuscode_ci(o) == IF o.timeout THEN TIMEOUT_STATUS ELSE o.returncode

\* the body of do_work's with statement, then TestEnv.__exit__ (rmtree)
W_Compile(w) ==
    /\ wpc[w] = "compile"
    /\ \E o \in RunOutcomes :
        LET s == witem[w]
            d0 == TestEnvFiles_ci(corpus[s], Stem(s), is_tar_ci(s))
            excluded == capture_files_ci(d0, ExcludedNone, TRUE, objects).set
            statuscode == statuscode_ci(o)
            d1 == d0 \o CompilerOutputs(Stem(s), statuscode)
            cap == capture_files_ci(d1, Excluded(excluded), FALSE, objects)
        IN /\ objects' = cap.objects
           /\ wreport' = [wreport EXCEPT ![w] =
                  [meta |-> FALSE, sample |-> Stem(s), statuscode |-> statuscode,
                   results |-> cap.captured, xelatex |-> 0]]
           /\ tmpdirs' = tmpdirs \ {<<s, 1>>}
    /\ wpc' = [wpc EXCEPT ![w] = "task_done"]
    /\ UNCHANGED fnvars
    /\ UNCHANGED <<program, corpus, mainpc, mainidx, mainexc, work, unfinished,
                   outlock, witem, wexc, logstate, logbuf, logfile,
                   CAPTURE_EXCLUDE, mreport>>

\* work.task_done(); assert report
W_TaskDone(w) ==
    /\ wpc[w] = "task_done"
    /\ unfinished' = unfinished - 1
    /\ wpc' = [wpc EXCEPT ![w] = "acquire"]
    /\ UNCHANGED fnvars
    /\ UNCHANGED <<program, corpus, mainpc, mainidx, mainexc, work, outlock,
                   witem, wreport, wexc, logstate, logbuf, logfile, tmpdirs,
                   objects, CAPTURE_EXCLUDE, mreport>>

LockTakenFreely(lock) == TRUE
\* outlock.acquire() returns only while nobody holds the lock
LockFree(lock) == lock = 0

\* with outlock: (entry)
W_Acquire(w) ==
    /\ wpc[w] = "acquire"
    /\ LockFree(outlock)
    /\ outlock' = w
    /\ wpc' = [wpc EXCEPT ![w] = "write"]
    /\ UNCHANGED fnvars
    /\ UNCHANGED <<program, corpus, mainpc, mainidx, mainexc, work, unfinished,
                   witem, wreport, wexc, logstate, logbuf, logfile, tmpdirs,
                   objects, CAPTURE_EXCLUDE, mreport>>

\* reportlog.write(json.dumps(report) + "\n"); a closed file raises
\* ValueError, which leaves the with block (releasing the lock) and the thread
W_Write(w) ==
    /\ wpc[w] = "write"
    /\ IF logstate = "open"
       THEN /\ logbuf' = LogWrite(logbuf, wreport[w])
            /\ wpc' = [wpc EXCEPT ![w] = "flush"]
            /\ UNCHANGED <<outlock, wexc>>
       ELSE /\ wpc' = [wpc EXCEPT ![w] = "dead"]
            /\ wexc' = [wexc EXCEPT ![w] = "ValueError"]
            /\ outlock' = 0
            /\ UNCHANGED logbuf
    /\ UNCHANGED fnvars
    /\ UNCHANGED <<program, corpus, mainpc, mainidx, mainexc, work, unfinished,
                   witem, wreport, logstate, logfile, tmpdirs,
                   objects, CAPTURE_EXCLUDE, mreport>>

\* reportlog.flush(); end of the with block: the lock is released
W_Flush(w) ==
    /\ wpc[w] = "flush"
    /\ logfile' = LogFlush(logfile, logbuf)
    /\ logbuf' = <<>>
    /\ outlock' = 0
    /\ wpc' = [wpc EXCEPT ![w] = "get"]
    /\ witem' = [witem EXCEPT ![w] = NoItem]
    /\ wreport' = [wreport EXCEPT ![w] = NoReport]
    /\ UNCHANGED fnvars
    /\ UNCHANGED <<program, corpus, mainpc, mainidx, mainexc, work, unfinished,
                   wexc, logstate, tmpdirs, objects, CAPTURE_EXCLUDE, mreport>>

(* ------------- report_ci.py: do_work, followed file by file ----------- *)
\* The threads run do_work concurrently and share the directory objects/:
\* here the body of do_work's with statement is followed step by step, the
\* exists-check and the two halves of shutil.copy being separate steps.

\* what objects/<name> holds between shutil.copy's open(dst, 'wb'), which
\* creates or truncates it, and the end of the copy
Truncated == Content("", FALSE, "truncated")

\* f.suffix or ".bin"
ext_ci(f) == IF f.name[2] = "" THEN ".bin" ELSE f.name[2]
\* target = Path("objects") / (digest + ext)
target_ci(f) == <<sha256sum16(f.content), ext_ci(f)>>

\* excluded = capture_files(d, as_set=True); then the compiler run, which
\* ends with a return code or in TimeoutExpired, and leaves its outputs in d
S_Run(w) ==
    /\ wpc[w] = "compile"
    /\ \E o \in RunOutcomes :
        LET s == witem[w]
            d0 == TestEnvFiles_ci(corpus[s], Stem(s), is_tar_ci(s))
        IN /\ wexcluded' = [wexcluded EXCEPT ![w] =
                                capture_files_ci(d0, ExcludedNone, TRUE, objects).set]
           /\ wstatuscode' = [wstatuscode EXCEPT ![w] = statuscode_ci(o)]
           /\ wdir' = [wdir EXCEPT ![w] = d0 \o CompilerOutputs(Stem(s), statuscode_ci(o))]
    /\ wi' = [wi EXCEPT ![w] = 1]
    /\ wcaptured' = [wcaptured EXCEPT ![w] = <<>>]
    /\ wpc' = [wpc EXCEPT ![w] = "capture"]
    /\ UNCHANGED <<xvars, mdvars, cpvars, tgvars, opens, sealed>>
    /\ UNCHANGED <<program, corpus, mainpc, mainidx, mainexc, work, unfinished,
                   outlock, witem, wreport, wexc, logstate, logbuf, logfile, tmpdirs,
                   objects, CAPTURE_EXCLUDE, mreport>>

\* results = capture_files(d, excluded=excluded): one iteration of the loop,
\* up to and including `if not target.exists()`
S_CaptureFile(w) ==
    /\ wpc[w] = "capture"
    /\ wi[w] <= Len(wdir[w])
    /\ LET f == wdir[w][wi[w]]
       IN IF ~f.is_file \/ sha256sum16(f.content) \in wexcluded[w]
          THEN /\ wi' = [wi EXCEPT ![w] = @ + 1]
               /\ UNCHANGED <<wpc, wcaptured>>
          ELSE IF target_ci(f) \in DOMAIN objects
          THEN /\ wcaptured' = [wcaptured EXCEPT ![w] = (f.name :> target_ci(f)) @@ @]
               /\ wi' = [wi EXCEPT ![w] = @ + 1]
               /\ UNCHANGED wpc
          ELSE /\ wpc' = [wpc EXCEPT ![w] = "copy"]
               /\ UNCHANGED <<wi, wcaptured>>
    /\ UNCHANGED <<xvars, mdvars, cpvars, tgvars, wdir, wexcluded, wstatuscode, opens, sealed>>
    /\ UNCHANGED <<program, corpus, mainpc, mainidx, mainexc, work, unfinished,
                   outlock, witem, wreport, wexc, logstate, logbuf, logfile, tmpdirs,
                   objects, CAPTURE_EXCLUDE, mreport>>

\* shutil.copy(f, target): open(dst, 'wb') creates the file, or truncates it
S_CopyOpen(w) ==
    /\ wpc[w] = "copy"
    /\ LET t == target_ci(wdir[w][wi[w]])
       IN /\ objects' = (t :> Truncated) @@ objects
          /\ opens' = (t :> (IF t \in DOMAIN opens THEN opens[t] + 1 ELSE 1)) @@ opens
    /\ wpc' = [wpc EXCEPT ![w] = "copy_data"]
    /\ UNCHANGED <<xvars, mdvars, cpvars, tgvars, wdir, wexcluded, wstatuscode, wi,
                   wcaptured, sealed>>
    /\ UNCHANGED <<program, corpus, mainpc, mainidx, mainexc, work, unfinished,
                   outlock, witem, wreport, wexc, logstate, logbuf, logfile, tmpdirs,
                   CAPTURE_EXCLUDE, mreport>>

\* shutil.copy(f, target): the bytes are written and dst is closed;
\* captured[f.name] = digest + ext
S_CopyData(w) ==
    /\ wpc[w] = "copy_data"
    /\ LET f == wdir[w][wi[w]]
       IN /\ objects' = (target_ci(f) :> f.content) @@ objects
          /\ sealed' = sealed \cup {target_ci(f)}
          /\ wcaptured' = [wcaptured EXCEPT ![w] = (f.name :> target_ci(f)) @@ @]
    /\ wi' = [wi EXCEPT ![w] = @ + 1]
    /\ wpc' = [wpc EXCEPT ![w] = "capture"]
    /\ UNCHANGED <<xvars, mdvars, cpvars, tgvars, wdir, wexcluded, wstatuscode, opens>>
    /\ UNCHANGED <<program, corpus, mainpc, mainidx, mainexc, work, unfinished,
                   outlock, witem, wreport, wexc, logstate, logbuf, logfile, tmpdirs,
                   CAPTURE_EXCLUDE, mreport>>

\* the loop is over: return captured; report = dict(...); TestEnv.__exit__
S_Report(w) ==
    /\ wpc[w] = "capture"
    /\ wi[w] > Len(wdir[w])
    /\ wreport' = [wreport EXCEPT ![w] =
           [meta |-> FALSE, sample |-> Stem(witem[w]), statuscode |-> wstatuscode[w],
            results |-> wcaptured[w], xelatex |-> 0]]
    /\ tmpdirs' = tmpdirs \ {<<witem[w], 1>>}
    /\ wdir' = [wdir EXCEPT ![w] = <<>>]
    /\ wexcluded' = [wexcluded EXCEPT ![w] = {}]
    /\ wstatuscode' = [wstatuscode EXCEPT ![w] = 0]
    /\ wi' = [wi EXCEPT ![w] = 0]
    /\ wcaptured' = [wcaptured EXCEPT ![w] = <<>>]
    /\ wpc' = [wpc EXCEPT ![w] = "task_done"]
    /\ UNCHANGED <<xvars, mdvars, cpvars, tgvars, opens, sealed>>
    /\ UNCHANGED <<program, corpus, mainpc, mainidx, mainexc, work, unfinished,
                   outlock, witem, wexc, logstate, logbuf, logfile,
                   objects, CAPTURE_EXCLUDE, mreport>>

(* --------------------------- report.py -------------------------------- *)
NoFile == File("", "", Content("", FALSE, ""))

\* x.suffix == '.tex' or magic.detect_from_filename(x).mime_type == 'text/x-tex'
IsTexLike(x) == x.name[2] = ".tex" \/ x.content.mime = "text/x-tex"

\* for x in texfiles: open, read, return x if it holds \documentclass;
\* assert False after the loop.  nread counts the files opened.
RECURSIVE scan_documentclass(_, _)
scan_documentclass(texfiles, i) ==
    IF i > Len(texfiles)
    THEN [exc |-> "AssertionError", file |-> NoFile, nread |-> i - 1]
    ELSE IF ~texfiles[i].is_file
    THEN [exc |-> "IsADirectoryError", file |-> NoFile, nread |-> i - 1]
    ELSE IF texfiles[i].content.marker
    THEN [exc |-> "none", file |-> texfiles[i], nread |-> i]
    ELSE scan_documentclass(texfiles, i + 1)

NoResult == [exc |-> "none", file |-> NoFile, nread |-> 0]

\* get_maindoc(p), p given as p.iterdir() in enumeration order
get_maindoc(p) ==
    LET texfiles == SelectSeq(p, IsTexLike)
    IN IF Len(texfiles) < 2
       THEN IF Len(texfiles) = 0
            THEN [exc |-> "IndexError", file |-> NoFile, nread |-> 0]
            ELSE [exc |-> "none", file |-> texfiles[1], nread |-> 0]
       ELSE scan_documentclass(texfiles, 1)

\* _EXTS.get(mt, ".bin")
ExtOfMime(mt) ==
    IF mt = "application/pdf" THEN ".pdf"
    ELSE IF mt = "text/plain" THEN ".txt"
    ELSE ".bin"

RECURSIVE capture_loop_r(_, _, _, _)
capture_loop_r(d, i, exclude_all, acc) ==
    IF i > Len(d) THEN acc
    ELSE LET f == d[i]
             digest == sha256sum16(f.content)
             ext == ExtOfMime(f.content.mime)
             target == <<digest, ext>>
         IN IF ~f.is_file THEN capture_loop_r(d, i + 1, exclude_all, acc)
            ELSE IF exclude_all THEN
                capture_loop_r(d, i + 1, exclude_all,
                               [acc EXCEPT !.exclude = @ \cup {digest}])
            ELSE IF digest \in acc.exclude THEN
                capture_loop_r(d, i + 1, exclude_all, acc)
            ELSE
                capture_loop_r(d, i + 1, exclude_all,
                    [acc EXCEPT !.objects = StoreIfAbsent(@, target, f.content),
                                !.captured = (f.name :> target) @@ @])

\* report.py's capture_files(d, exclude_all) run against the object store
\* `store` and the global _CAPTURE_EXCLUDE `exclude`
capture_files_r(d, exclude_all, store, exclude) ==
    capture_loop_r(d, 1, exclude_all,
                   [captured |-> <<>>, objects |-> store, exclude |-> exclude])

\* report.py's TestEnv.__init__: the assert on the sniffed type comes
\* after mkdtemp; the tar members are extracted without any check
TestEnvRaises_r(p) == IF p.payload = "notgzip" THEN "AssertionError" ELSE "none"
TestEnvFiles_r(p, stem) ==
    IF SniffedTar(p) THEN TarListingOf(p)
    ELSE <<File(stem, "", TexMain)>>

\* an uncaught exception ends the script
Crash(exc) ==
    /\ mainpc' = "crashed"
    /\ mainexc' = exc

\* for sample in Path(corpus).iterdir(): if sample.stat().st_size < 100: continue
R_NextSample ==
    /\ program = "report"
    /\ mainpc = "loop"
    /\ IF mainidx > Len(corpus)
       THEN mainpc' = "close" /\ mainidx' = mainidx
       ELSE IF corpus[mainidx].size < WITHDRAWN_SIZE
       THEN mainpc' = mainpc /\ mainidx' = mainidx + 1
       ELSE mainpc' = "env1" /\ mainidx' = mainidx
    /\ mreport' = NoReport
    /\ UNCHANGED fnvars
    /\ UNCHANGED <<program, corpus, mainexc, work, unfinished, outlock,
                   wpc, witem, wreport, wexc, logstate, logbuf, logfile, tmpdirs,
                   objects, CAPTURE_EXCLUDE>>

\* TestEnv(sample) of the k-th with statement: mkdtemp, assert, extraction
R_TestEnv(k) ==
    /\ program = "report"
    /\ mainpc = (IF k = 1 THEN "env1" ELSE "env2")
    /\ tmpdirs' = tmpdirs \cup {<<mainidx, k>>}
    /\ LET exc == TestEnvRaises_r(corpus[mainidx])
       IN IF exc = "none"
          THEN mainpc' = (IF k = 1 THEN "body1" ELSE "body2") /\ mainexc' = mainexc
          ELSE Crash(exc)
    /\ UNCHANGED fnvars
    /\ UNCHANGED <<program, corpus, mainidx, work, unfinished, outlock,
                   wpc, witem, wreport, wexc, logstate, logbuf, logfile,
                   objects, CAPTURE_EXCLUDE, mreport>>

\* the exception, if any, that subprocess.run(..., timeout=...) raises
RunRaises_r(o) == IF o.timeout THEN "TimeoutExpired" ELSE "none"

\* first of the exceptions in order of evaluation, "none" if there is none
FirstExc(excs) ==
    LET bad == SelectSeq(excs, LAMBDA e : e # "none")
    IN IF bad = <<>> THEN "none" ELSE bad[1]

\* body of the first with statement (xelatex, twice), then __exit__
R_Xelatex ==
    /\ program = "report"
    /\ mainpc = "body1"
    /\ \E o1, o2 \in RunOutcomes :
        LET d == TestEnvFiles_r(corpus[mainidx], Stem(mainidx))
            base == capture_files_r(d, TRUE, objects, CAPTURE_EXCLUDE)
            exc == FirstExc(<<get_maindoc(d).exc, RunRaises_r(o1), RunRaises_r(o2)>>)
        IN /\ CAPTURE_EXCLUDE' = base.exclude
           /\ IF exc = "none"
              THEN /\ mreport' = [mreport EXCEPT !.sample = Stem(mainidx),
                                                 !.xelatex = o2.returncode]
                   /\ mainpc' = "env2"
                   /\ mainexc' = mainexc
              ELSE Crash(exc) /\ mreport' = mreport
    /\ tmpdirs' = tmpdirs \ {<<mainidx, 1>>}
    /\ UNCHANGED fnvars
    /\ UNCHANGED <<program, corpus, mainidx, work, unfinished, outlock,
                   wpc, witem, wreport, wexc, logstate, logbuf, logfile, objects>>

\* body of the second with statement (tectonic, three times, get_tags,
\* capture_files), then __exit__
R_Tectonic ==
    /\ program = "report"
    /\ mainpc = "body2"
    /\ \E o1, o2, o3 \in RunOutcomes :
        LET d0 == TestEnvFiles_r(corpus[mainidx], Stem(mainidx))
            base == capture_files_r(d0, TRUE, objects, CAPTURE_EXCLUDE)
            exc == FirstExc(<<get_maindoc(d0).exc, RunRaises_r(o1), RunRaises_r(o2),
                              RunRaises_r(o3)>>)
            d1 == d0 \o CompilerOutputs(Stem(mainidx), o3.returncode)
            cap == capture_files_r(d1, FALSE, objects, base.exclude)
        IN /\ CAPTURE_EXCLUDE' = base.exclude
           /\ IF exc = "none"
              THEN /\ mreport' = [mreport EXCEPT !.statuscode = o3.returncode,
                                                 !.results = cap.captured]
                   /\ objects' = cap.objects
                   /\ mainpc' = "write"
                   /\ mainexc' = mainexc
              ELSE Crash(exc) /\ UNCHANGED <<mreport, objects>>
    /\ tmpdirs' = tmpdirs \ {<<mainidx, 2>>}
    /\ UNCHANGED fnvars
    /\ UNCHANGED <<program, corpus, mainidx, work, unfinished, outlock,
                   wpc, witem, wreport, wexc, logstate, logbuf, logfile>>

\* reportlog.write(json.dumps(report) + "\n")
R_Write ==
    /\ program = "report"
    /\ mainpc = "write"
    /\ logbuf' = LogWrite(logbuf, mreport)
    /\ mainpc' = "flush"
    /\ UNCHANGED fnvars
    /\ UNCHANGED <<program, corpus, mainidx, mainexc, work, unfinished, outlock,
                   wpc, witem, wreport, wexc, logstate, logfile, tmpdirs,
                   objects, CAPTURE_EXCLUDE, mreport>>

\* reportlog.flush(), and on to the next sample
R_Flush ==
    /\ program = "report"
    /\ mainpc = "flush"
    /\ logfile' = LogFlush(logfile, logbuf)
    /\ logbuf' = <<>>
    /\ mainpc' = "loop"
    /\ mainidx' = mainidx + 1
    /\ UNCHANGED fnvars
    /\ UNCHANGED <<program, corpus, mainexc, work, unfinished, outlock,
                   wpc, witem, wreport, wexc, logstate, tmpdirs,
                   objects, CAPTURE_EXCLUDE, mreport>>

(* ------------------------------ get_tags ------------------------------ *)
\* Texts are sequences of fragments; a signature is the sequence of the
\* fragments it is made of, so that "LaTeX Error" is a substring of
\* "LaTeX Error: File" and of "LaTeX Error: Missing \begin{document}" and
\* no other signature is a substring of another.
FragLatexError == "LaTeX Error"
FragFile       == ": File"
FragMissing    == ": Missing \\begin{document}"
FragNoFont     == "Cannot proceed without .vf or \"physical\" font for PDF output..."
FragUndefined  == "! Undefined control sequence."
FragInputenc   == "Package inputenc Error: inputenc is not designed for xetex or luatex."
FragBib        == "\\end{thebibliography}"
FragOther      == "This is XeTeX"

\* the dict TAGS, in insertion order
TAGS ==
    << [k |-> "no-font-for-pdf",            v |-> <<FragNoFont>>],
       [k |-> "latex-file-not-found",       v |-> <<FragLatexError, FragFile>>],
       [k |-> "undefined-control-sequence", v |-> <<FragUndefined>>],
       [k |-> "not-latex",                  v |-> <<FragLatexError, FragMissing>>],
       [k |-> "uses-inputenc",              v |-> <<FragInputenc>>],
       [k |-> "latex-error",                v |-> <<FragLatexError>>],
       [k |-> "bib-failed",                 v |-> <<FragBib>>] >>

\* TAGS[k]
TagIndex(k) == CHOOSE j \in DOMAIN TAGS : TAGS[j].k = k
SignatureOf(k) == TAGS[TagIndex(k)].v

\* Python's `v in data` on texts: v occurs as a contiguous part of data
StrIn(v, data) ==
    \E i \in 0..(Len(data) - Len(v)) : SubSeq(data, i + 1, i + Len(v)) = v

IMPLIED_TAGS_Self(k) ==
    { TAGS[j].k : j \in {i \in DOMAIN TAGS : StrIn(TAGS[i].v, SignatureOf(k))} }
IMPLIED_TAGS_Reversed(k) ==
    { TAGS[j].k : j \in {i \in DOMAIN TAGS :
                            StrIn(SignatureOf(k), TAGS[i].v) /\ TAGS[i].k # k} }
\* IMPLIED_TAGS[k]: the tags k_ != k whose signature v_ is in k's signature v
IMPLIED_TAGS(k) ==
    { TAGS[j].k : j \in {i \in DOMAIN TAGS :
                            StrIn(TAGS[i].v, SignatureOf(k)) /\ TAGS[i].k # k} }

\* the order of Python's str comparison on the tag names
StrOrder ==
    << "bib-failed", "latex-error", "latex-file-not-found", "no-font-for-pdf",
       "no-log-file", "not-latex", "undefined-control-sequence", "uses-inputenc" >>
StrRank(k) == CHOOSE i \in DOMAIN StrOrder : StrOrder[i] = k

\* sorted(list(S))
RECURSIVE sorted(_)
sorted(S) ==
    IF S = {} THEN <<>>
    ELSE LET m == CHOOSE x \in S : \A y \in S : StrRank(x) <= StrRank(y)
         IN <<m>> \o sorted(S \ {m})

\* a log file path: whether the file exists, and its text
Log(exists, data) == [exists |-> exists, data |-> data]
NoLog == Log(FALSE, <<>>)

\* get_tags(p)
get_tags(p) ==
    IF ~p.exists THEN <<"no-log-file">>
    ELSE LET hits == SelectSeq(TAGS, LAMBDA t : StrIn(t.v, p.data))
             res == [i \in DOMAIN hits |-> hits[i].k]
             redundant == UNION { IMPLIED_TAGS(res[i]) : i \in DOMAIN res }
         IN sorted({res[i] : i \in DOMAIN res} \ redundant)

Fragments ==
    { FragLatexError, FragFile, FragMissing, FragNoFont, FragUndefined,
      FragInputenc, FragBib, FragOther }
\* the log files get_tags may be given: none, or a text of at most
\* MaxLogLen fragments
Logs ==
    {NoLog} \cup { Log(TRUE, t) : t \in UNION { [1..n -> Fragments] : n \in 0..MaxLogLen } }

\* tags = get_tags(logfile)
TG_Classify ==
    /\ tgpc = "call"
    /\ tags' = get_tags(logpath)
    /\ tgpc' = "returned"
    /\ UNCHANGED <<program, logpath>>
    /\ UNCHANGED <<pipevars, xvars, mdvars, cpvars, stvars>>

(* ------------------- TestEnv.__init__: the extraction ----------------- *)
\* Paths are strings, here sequences of characters.
Slash == "/"
\* self.tmpdir, as mkdtemp returns it: /t/w
TmpDir == <<"/", "t", "/", "w">>

\* the member names an archive may hold:
\*   f   s/f   ../f   ../wx/f   s/../f   /f
MemberNames ==
    { <<"f">>,
      <<"s", "/", "f">>,
      <<".", ".", "/", "f">>,
      <<".", ".", "/", "w", "x", "/", "f">>,
      <<"s", "/", ".", ".", "/", "f">>,
      <<"/", "f">> }

\* os.path.join(path, name)
path_join(path, name) ==
    IF name # <<>> /\ name[1] = Slash THEN name
    ELSE IF path = <<>> \/ path[Len(path)] = Slash THEN path \o name
    ELSE path \o <<Slash>> \o name

\* path.split("/")
RECURSIVE SplitPath(_, _, _)
SplitPath(path, i, cur) ==
    IF i > Len(path) THEN <<cur>>
    ELSE IF path[i] = Slash THEN <<cur>> \o SplitPath(path, i + 1, <<>>)
    ELSE SplitPath(path, i + 1, Append(cur, path[i]))

\* normpath's walk over the components of an absolute path
RECURSIVE NormComps(_, _, _)
NormComps(comps, i, acc) ==
    IF i > Len(comps) THEN acc
    ELSE IF comps[i] = <<>> \/ comps[i] = <<".">> THEN NormComps(comps, i + 1, acc)
    ELSE IF comps[i] = <<".", ".">>
    THEN NormComps(comps, i + 1, IF acc = <<>> THEN acc ELSE SubSeq(acc, 1, Len(acc) - 1))
    ELSE NormComps(comps, i + 1, Append(acc, comps[i]))

RECURSIVE JoinComps(_, _)
JoinComps(comps, i) ==
    IF i > Len(comps) THEN <<>>
    ELSE <<Slash>> \o comps[i] \o JoinComps(comps, i + 1)

\* os.path.abspath(path), for the absolute paths the extraction builds
abspath(path) ==
    LET comps == NormComps(SplitPath(path, 1, <<>>), 1, <<>>)
    IN IF comps = <<>> THEN <<Slash>> ELSE JoinComps(comps, 1)

\* os.path.commonprefix([a, b]): the longest common prefix, by character
RECURSIVE commonprefix(_, _)
commonprefix(a, b) ==
    IF a = <<>> \/ b = <<>> \/ a[1] # b[1] THEN <<>>
    ELSE <<a[1]>> \o commonprefix(Tail(a), Tail(b))

is_within_directory(directory, target) ==
    LET abs_directory == abspath(directory)
        abs_target == abspath(target)
        prefix == commonprefix(abs_directory, abs_target)
    IN prefix = abs_directory

\* whether this program's TestEnv checks the members before extracting:
\* report_ci.py and prepare_dataset.py call safe_extract, report.py calls
\* tar.extractall directly
UsesSafeExtract == program \in {"report_ci", "prepare_dataset"}

\* tarfile.open(submission_data_path) of an archive with these members
X_Open ==
    /\ xpc = "open"
    /\ xpc' = IF UsesSafeExtract THEN "check" ELSE "extract"
    /\ xi' = 1
    /\ UNCHANGED <<program, members, fs>>
    /\ UNCHANGED <<pipevars, mdvars, cpvars, tgvars, stvars>>

\* one iteration of safe_extract's loop over tar.getmembers()
X_Check ==
    /\ xpc = "check"
    /\ LET member_path == path_join(TmpDir, members[xi])
       IN IF ~is_within_directory(TmpDir, member_path)
          THEN xpc' = "raised" /\ xi' = xi
          ELSE IF xi = Len(members)
          THEN xpc' = "extract" /\ xi' = 1
          ELSE xpc' = xpc /\ xi' = xi + 1
    /\ UNCHANGED <<program, members, fs>>
    /\ UNCHANGED <<pipevars, mdvars, cpvars, tgvars, stvars>>

\* tar.extractall(path): one member; the file is created where the joined
\* name leads
X_Extract ==
    /\ xpc = "extract"
    /\ fs' = fs \cup {abspath(path_join(TmpDir, members[xi]))}
    /\ IF xi = Len(members)
       THEN xpc' = "done" /\ xi' = xi
       ELSE xpc' = xpc /\ xi' = xi + 1
    /\ UNCHANGED <<program, members>>
    /\ UNCHANGED <<pipevars, mdvars, cpvars, tgvars, stvars>>

(* ----------------------- one get_maindoc call ------------------------- *)
\* the entries a workspace root may hold: three names, each with TeX or
\* plain-text bytes, with or without the marker \documentclass
EntryNames == {<<"a", ".tex">>, <<"b", ".tex">>, <<"c", "">>}
EntryContents ==
    { TexMain, TexPart, Content("text/plain", TRUE, "notes"), LogOk }
Entries == { File(n[1], n[2], c) : n \in EntryNames, c \in EntryContents }
\* the listings of at most MaxFiles entries, no name twice, in any order
Listings ==
    UNION { { l \in [1..k -> Entries] :
                \A i, j \in 1..k : l[i].name = l[j].name => i = j } :
            k \in 0..MaxFiles }

\* maindoc = get_maindoc(d)
MD_Resolve ==
    /\ mdpc = "call"
    /\ mdres' = get_maindoc(dir)
    /\ mdpc' = "returned"
    /\ UNCHANGED <<program, dir>>
    /\ UNCHANGED <<pipevars, xvars, cpvars, tgvars, stvars>>

(* ------------------- a sequence of capture_files calls ---------------- *)
\* the directories capture_files is called on: at most two of three names,
\* each holding one of two byte contents, and possibly a subdirectory
CaptureNames == {<<"out", ".pdf">>, <<"out", ".log">>, <<"x", "">>}
CaptureContents == {PdfOf("p"), LogOk}
CaptureEntries ==
    { File(n[1], n[2], c) : n \in CaptureNames, c \in CaptureContents }
CaptureDirs ==
    { <<e>> : e \in CaptureEntries }
        \cup { <<p[1], Dir("figs"), p[2]>> :
                 p \in {q \in CaptureEntries \X CaptureEntries : q[1].name # q[2].name} }

\* a call of capture_files: its mode, the directory it was given and whether
\* a digest set was in force to exclude from it
Call(kind, d, excl) == [kind |-> kind, d |-> d, excl |-> excl]
NoCall == Call("none", <<>>, FALSE)

\* excluded = capture_files(d, as_set=True)
CP_Baseline_ci ==
    /\ program = "report_ci"
    /\ ncalls < MaxCalls
    /\ \E d \in CaptureDirs :
          /\ baseline' = capture_files_ci(d, ExcludedNone, TRUE, objects).set
          /\ basedir' = d
          /\ lastcall' = Call("baseline", d, FALSE)
    /\ ncalls' = ncalls + 1
    /\ UNCHANGED <<program, captured>>
    /\ UNCHANGED <<corpus, mainpc, mainidx, mainexc, work, unfinished, outlock,
                   wpc, witem, wreport, wexc, logstate, logbuf, logfile, tmpdirs,
                   objects, CAPTURE_EXCLUDE, mreport, xvars, mdvars, tgvars, stvars>>

\* results = capture_files(d, excluded=excluded), or capture_files(d)
CP_Capture_ci ==
    /\ program = "report_ci"
    /\ ncalls < MaxCalls
    /\ \E d \in CaptureDirs, given \in BOOLEAN :
          LET excluded == IF given THEN Excluded(baseline) ELSE ExcludedNone
              r == capture_files_ci(d, excluded, FALSE, objects)
          IN /\ captured' = r.captured
             /\ objects' = r.objects
             /\ lastcall' = Call("capture", d, given)
    /\ ncalls' = ncalls + 1
    /\ UNCHANGED <<program, baseline, basedir>>
    /\ UNCHANGED <<corpus, mainpc, mainidx, mainexc, work, unfinished, outlock,
                   wpc, witem, wreport, wexc, logstate, logbuf, logfile, tmpdirs,
                   CAPTURE_EXCLUDE, mreport, xvars, mdvars, tgvars, stvars>>

\* report.py: capture_files(d, exclude_all=True)
CP_Baseline_r ==
    /\ program = "report"
    /\ ncalls < MaxCalls
    /\ \E d \in CaptureDirs :
          /\ CAPTURE_EXCLUDE' = capture_files_r(d, TRUE, objects, CAPTURE_EXCLUDE).exclude
          /\ basedir' = d
          /\ lastcall' = Call("baseline", d, FALSE)
    /\ ncalls' = ncalls + 1
    /\ UNCHANGED <<program, captured, baseline>>
    /\ UNCHANGED <<corpus, mainpc, mainidx, mainexc, work, unfinished, outlock,
                   wpc, witem, wreport, wexc, logstate, logbuf, logfile, tmpdirs,
                   objects, mreport, xvars, mdvars, tgvars, stvars>>

\* report.py: results = capture_files(d)
CP_Capture_r ==
    /\ program = "report"
    /\ ncalls < MaxCalls
    /\ \E d \in CaptureDirs :
          LET r == capture_files_r(d, FALSE, objects, CAPTURE_EXCLUDE)
          IN /\ captured' = r.captured
             /\ objects' = r.objects
             /\ lastcall' = Call("capture", d, TRUE)
    /\ ncalls' = ncalls + 1
    /\ UNCHANGED <<program, baseline, basedir>>
    /\ UNCHANGED <<corpus, mainpc, mainidx, mainexc, work, unfinished, outlock,
                   wpc, witem, wreport, wexc, logstate, logbuf, logfile, tmpdirs,
                   CAPTURE_EXCLUDE, mreport, xvars, mdvars, tgvars, stvars>>

\* the pipelines' state before the script's first statement
PipeStart ==
    /\ mainpc = "open"
    /\ mainidx = 1
    /\ mainexc = "none"
    /\ work = <<>>
    /\ unfinished = 0
    /\ outlock = 0
    /\ wpc = [w \in Workers |-> "unstarted"]
    /\ witem = [w \in Workers |-> NoItem]
    /\ wreport = [w \in Workers |-> NoReport]
    /\ wexc = [w \in Workers |-> "none"]
    /\ logstate = "unopened"
    /\ logbuf = <<>>
    /\ logfile = <<>>
    /\ tmpdirs = {}
    /\ objects = <<>>
    /\ CAPTURE_EXCLUDE = {}
    /\ mreport = NoReport

\* no single extraction is being followed
ExtractIdle ==
    /\ members = <<>>
    /\ xpc = "idle"
    /\ xi = 0
    /\ fs = {}

\* no single get_maindoc call is being followed
MaindocIdle ==
    /\ dir = <<>>
    /\ mdpc = "idle"
    /\ mdres = NoResult

\* no sequence of capture_files calls is being followed
CaptureIdle ==
    /\ ncalls = 0
    /\ captured = <<>>
    /\ baseline = {}
    /\ basedir = <<>>
    /\ lastcall = NoCall

\* no capture_files call is being followed file by file
StoreIdle ==
    /\ wdir = [w \in Workers |-> <<>>]
    /\ wexcluded = [w \in Workers |-> {}]
    /\ wstatuscode = [w \in Workers |-> 0]
    /\ wi = [w \in Workers |-> 0]
    /\ wcaptured = [w \in Workers |-> <<>>]
    /\ opens = <<>>
    /\ sealed = {}

\* no single get_tags call is being followed
TagsIdle ==
    /\ logpath = NoLog
    /\ tgpc = "idle"
    /\ tags = <<>>

Init ==
    /\ program \in {"report_ci", "report"}
    /\ corpus \in Corpora
    /\ PipeStart
    /\ ExtractIdle
    /\ MaindocIdle
    /\ CaptureIdle
    /\ StoreIdle
    /\ TagsIdle

NextCI ==
    \/ M_Open
    \/ M_WriteMeta
    \/ M_FlushMeta
    \/ M_StartThread
    \/ M_Put
    \/ M_Join
    \/ M_PutNone
    \/ M_JoinThread
    \/ M_Close
    \/ \E w \in Workers : W_Get(w)
    \/ \E w \in Workers : W_TestEnv(w)
    \/ \E w \in Workers : W_Compile(w)
    \/ \E w \in Workers : W_TaskDone(w)
    \/ \E w \in Workers : W_Acquire(w)
    \/ \E w \in Workers : W_Write(w)
    \/ \E w \in Workers : W_Flush(w)

NextReport ==
    \/ R_NextSample
    \/ \E k \in {1, 2} : R_TestEnv(k)
    \/ R_Xelatex
    \/ R_Tectonic
    \/ R_Write
    \/ R_Flush

Next == NextCI \/ NextReport

\* a run of either pipeline on a corpus of at most MaxSamples files
Spec == Init /\ [][Next]_vars

\* one sample that evaluates, alone or among as many samples that raise in
\* TestEnv.__init__ as there are workers, in any enumeration order
FaultyCorpora ==
    { c \in [1..1 -> {Profile(200, "tar", "main")}]
             \cup [1..(num_worker_threads + 1) ->
                      {Profile(200, "tar", "main"), Profile(200, "notgzip", "main")}] :
        Cardinality({s \in DOMAIN c : c[s].payload = "tar"}) = 1 }

InitFaulty ==
    /\ program = "report_ci"
    /\ corpus \in FaultyCorpora
    /\ PipeStart
    /\ ExtractIdle
    /\ MaindocIdle
    /\ CaptureIdle
    /\ StoreIdle
    /\ TagsIdle

\* a run of report_ci.py on such a corpus
SpecFaulty == InitFaulty /\ [][NextCI]_vars

\* samples the other corpora leave out: an under-threshold flat document that
\* the entry map lists, an archive that ships a stale log, and an archive
\* whose entry document is named like the sample
VariedProfiles ==
    { Profile(50, "flat", "stem"),
      Profile(200, "tarlog", "main"),
      Profile(200, "tar", "stem"),
      Profile(200, "tar", "main") }
VariedCorpora == UNION { [1..k -> VariedProfiles] : k \in 1..MaxSamples }

InitVaried ==
    /\ program \in {"report_ci", "report"}
    /\ corpus \in VariedCorpora
    /\ PipeStart
    /\ ExtractIdle
    /\ MaindocIdle
    /\ CaptureIdle
    /\ StoreIdle
    /\ TagsIdle

\* a run of either pipeline on such a corpus
SpecVaried == InitVaried /\ [][Next]_vars

\* corpora of samples that all extract and compile
StoreCorpora ==
    UNION { [1..k -> {Profile(200, "tar", "main")}] : k \in 1..MaxSamples }

InitStore ==
    /\ program = "report_ci"
    /\ corpus \in StoreCorpora
    /\ PipeStart
    /\ ExtractIdle
    /\ MaindocIdle
    /\ CaptureIdle
    /\ StoreIdle
    /\ TagsIdle

NextStore ==
    \/ M_Open
    \/ M_WriteMeta
    \/ M_FlushMeta
    \/ M_StartThread
    \/ M_Put
    \/ M_Join
    \/ M_PutNone
    \/ M_JoinThread
    \/ M_Close
    \/ \E w \in Workers : W_Get(w)
    \/ \E w \in Workers : W_TestEnv(w)
    \/ \E w \in Workers : S_Run(w)
    \/ \E w \in Workers : S_CaptureFile(w)
    \/ \E w \in Workers : S_CopyOpen(w)
    \/ \E w \in Workers : S_CopyData(w)
    \/ \E w \in Workers : S_Report(w)
    \/ \E w \in Workers : W_TaskDone(w)
    \/ \E w \in Workers : W_Acquire(w)
    \/ \E w \in Workers : W_Write(w)
    \/ \E w \in Workers : W_Flush(w)

\* a run of report_ci.py with the workers' captures followed file by file
SpecStore == InitStore /\ [][NextStore]_vars

InitTags ==
    /\ program = "report"
    /\ corpus = <<>>
    /\ PipeStart
    /\ ExtractIdle
    /\ MaindocIdle
    /\ CaptureIdle
    /\ StoreIdle
    /\ logpath \in Logs
    /\ tgpc = "call"
    /\ tags = <<>>

NextTags == TG_Classify

\* one call of get_tags on a log file
SpecTags == InitTags /\ [][NextTags]_vars

\* the archives of at most MaxMembers members
Archives == UNION { [1..k -> MemberNames] : k \in 1..MaxMembers }

InitExtract ==
    /\ program \in {"report_ci", "prepare_dataset", "report"}
    /\ corpus = <<>>
    /\ PipeStart
    /\ members \in Archives
    /\ xpc = "open"
    /\ xi = 0
    /\ fs = {}
    /\ MaindocIdle
    /\ CaptureIdle
    /\ StoreIdle
    /\ TagsIdle

NextExtract ==
    \/ X_Open
    \/ X_Check
    \/ X_Extract

\* the extraction of one tar archive by TestEnv.__init__
SpecExtract == InitExtract /\ [][NextExtract]_vars


InitMaindoc ==
    /\ program = "report"
    /\ corpus = <<>>
    /\ PipeStart
    /\ ExtractIdle
    /\ CaptureIdle
    /\ StoreIdle
    /\ TagsIdle
    /\ dir \in Listings
    /\ mdpc = "call"
    /\ mdres = NoResult

NextMaindoc == MD_Resolve

\* one call of get_maindoc on a workspace root
SpecMaindoc == InitMaindoc /\ [][NextMaindoc]_vars

InitCapture ==
    /\ program \in {"report_ci", "report"}
    /\ corpus = <<>>
    /\ PipeStart
    /\ ExtractIdle
    /\ MaindocIdle
    /\ CaptureIdle
    /\ StoreIdle
    /\ TagsIdle

NextCapture ==
    \/ CP_Baseline_ci
    \/ CP_Capture_ci
    \/ CP_Baseline_r
    \/ CP_Capture_r

\* at most MaxCalls calls of capture_files against one object store
SpecCapture == InitCapture /\ [][NextCapture]_vars

(* ============================== claims ================================ *)
\* the samples the enqueue loop puts on the queue
Queued == {s \in DOMAIN corpus : InMap(s)}
\* the ReportRecords of the log file (the lines after the metadata line)
Records == IF logfile = <<>> THEN <<>> ELSE Tail(logfile)
HasRecord(s) == \E i \in DOMAIN Records : Records[i].sample = Stem(s)
\* whether the evaluation of sample s raises out of report_ci's do_work
Raises_ci(s) == TestEnvRaises_ci(corpus[s], is_tar_ci(s)) # "none"

\* C1: a run of report_ci.py terminates whatever the samples do: it never
\* comes to a halt before the main thread is done, and when the main thread
\* is done the queue is drained, every worker has taken a sentinel and
\* exited, and the report log is closed.
C1_Terminates ==
    program = "report_ci" =>
        /\ mainpc = "done" \/ ENABLED Next
        /\ mainpc = "done" =>
              /\ work = <<>>
              /\ \A w \in Workers : wpc[w] = "exited"
              /\ logstate = "closed"

\* C2: a sample that raises does not stop the pool: when the run has come to
\* rest (no thread can take a step), every queued sample whose own
\* evaluation does not raise has its ReportRecord in the log.
C2_SiblingsContinue ==
    (program = "report_ci" /\ ~ENABLED NextCI) =>
        \A s \in Queued : ~Raises_ci(s) => HasRecord(s)

\* C3: when the report log is closed it holds exactly one ReportRecord per
\* queued sample after the metadata line, and nothing else.
C3_OneRecordPerSample ==
    (program = "report_ci" /\ logstate = "closed") =>
        /\ Len(Records) = Cardinality(Queued)
        /\ \A s \in Queued :
              Cardinality({i \in DOMAIN Records : Records[i].sample = Stem(s)}) = 1
C3_Witness ==
    /\ program = "report_ci"
    /\ logstate = "closed"
    /\ Len(Records) = 2
    /\ Records[1].sample # Records[2].sample

\* C4: at most one thread is inside the write+flush section of the report
\* log at any time, the main thread's metadata write included, and the
\* line a worker flushes is its own record and nothing else.
InLogSection(w) == wpc[w] \in {"write", "flush"}
C4_MutualExclusion ==
    /\ Cardinality({w \in Workers : InLogSection(w)}) <= 1
    /\ mainpc \in {"write_meta", "flush_meta"} => \A w \in Workers : ~InLogSection(w)
    /\ \A w \in Workers : wpc[w] = "flush" => logbuf = <<wreport[w]>>
C4_Witness ==
    \E w1, w2 \in Workers :
        /\ w1 # w2
        /\ wpc[w1] = "flush"
        /\ wpc[w2] = "acquire"

\* C5: in every state the log file is empty or is the metadata line followed
\* by ReportRecords only (so the metadata line is there once, and first), and
\* each step only appends to the file.
LogWellFormed(f) ==
    f = <<>> \/ (f[1].meta /\ \A i \in 2..Len(f) : ~f[i].meta)
IsPrefix(a, b) == Len(a) <= Len(b) /\ SubSeq(b, 1, Len(a)) = a
C5_ValidPrefix ==
    /\ [](LogWellFormed(logfile) /\ LogWellFormed(logfile \o logbuf))
    /\ [][IsPrefix(logfile, logfile')]_vars
C5_Witness ==
    /\ Len(logfile) = 2
    /\ logfile[1] = MetaLine
    /\ Len(logbuf) = 1
    /\ ~logbuf[1].meta

\* C6: a compiler run that exceeds its timeout never raises out of the
\* evaluation of the sample, in either pipeline: no thread is ended by
\* TimeoutExpired.
C6_TimeoutNeverRaised ==
    /\ mainexc # "TimeoutExpired"
    /\ \A w \in Workers : wexc[w] # "TimeoutExpired"

\* C7: a workspace exists only while its sample is being evaluated: once the
\* evaluation has ended, in whatever way, the workspace is gone.
BeingEvaluated(s) ==
    \/ program = "report_ci" /\ \E w \in Workers : witem[w] = s /\ wpc[w] \in {"do_work", "compile"}
    \/ program = "report" /\ mainidx = s /\ mainpc \in {"env1", "body1", "env2", "body2"}
C7_WorkspaceRemoved ==
    \A t \in tmpdirs : BeingEvaluated(t[1])

\* C8: an archive with an entry whose name contains ../ is never extracted:
\* no file is created, inside the workspace root or outside it (a sibling
\* directory whose name starts with the root's name included), the
\* extraction does not complete.
HasDotDotSlash(name) ==
    \E i \in 1..(Len(name) - 2) : SubSeq(name, i, i + 2) = <<".", ".", "/">>
C8_TraversalRejected ==
    (\E k \in DOMAIN members : HasDotDotSlash(members[k])) =>
        /\ fs = {}
        /\ xpc # "done"

\* C9: get_maindoc follows the reference rule: no TeX-like file, it fails;
\* exactly one, it returns that file and reads nothing; two or more, it
\* returns the one that holds \documentclass when exactly one does, and
\* fails when none or more than one does.
Candidates == SelectSeq(dir, IsTexLike)
Marked == {i \in DOMAIN Candidates : Candidates[i].content.marker}
C9_ReferenceRule ==
    mdpc = "returned" =>
        IF Len(Candidates) = 0 THEN mdres.exc # "none"
        ELSE IF Len(Candidates) = 1
        THEN mdres.exc = "none" /\ mdres.file = Candidates[1] /\ mdres.nread = 0
        ELSE IF Cardinality(Marked) = 1
        THEN mdres.exc = "none" /\ mdres.file.content.marker
        ELSE mdres.exc # "none"

\* C10: the object store never holds two files for the same content: any
\* two objects with the same digest are the same object.
C10_OneObjectPerContent ==
    \A t1, t2 \in DOMAIN objects : t1[1] = t2[1] => t1 = t2

\* C11: a capture-mode call of capture_files on the directory of the last
\* baseline call, with that baseline in force and the directory unchanged,
\* returns an empty map and leaves the object store as it was.
AfterBaseline(c) == c.kind = "capture" /\ c.excl /\ c.d = basedir
C11_UnchangedDirCapturesNothing ==
    [][(ncalls' = ncalls + 1 /\ AfterBaseline(lastcall'))
          => (captured' = <<>> /\ objects' = objects)]_vars
C11_Witness ==
    /\ AfterBaseline(lastcall)
    /\ \E i, j \in DOMAIN basedir :
          i # j /\ basedir[i].is_file /\ basedir[j].is_file
    /\ captured = <<>>
    /\ objects # <<>>

\* C12: a sample below the withdrawal threshold is never put on the queue,
\* never taken by a worker, never extracted and never gets a ReportRecord,
\* whether or not the entry map lists it; and once the enqueue loop is over
\* every listed sample that clears the threshold has been enqueued.
Withdrawn(s) == corpus[s].size < WITHDRAWN_SIZE
Handled(s) ==
    \/ \E i \in DOMAIN work : work[i] = s
    \/ \E w \in Workers : witem[w] = s
    \/ HasRecord(s)
PutLoopOver == mainpc \in {"join", "put_none", "join_threads", "close", "done"}
C12_WithdrawnSkipped ==
    \A s \in DOMAIN corpus :
        /\ Withdrawn(s) => (~Handled(s) /\ \A t \in tmpdirs : t[1] # s)
        /\ (program = "report_ci" /\ PutLoopOver /\ InMap(s) /\ ~Withdrawn(s)) => Handled(s)

\* the tags whose signature occurs in the log, and the tags returned
Matched == { TAGS[j].k : j \in {i \in DOMAIN TAGS : StrIn(TAGS[i].v, logpath.data)} }
Returned == { tags[i] : i \in DOMAIN tags }
Subsumes(b, a) == a # b /\ StrIn(SignatureOf(a), SignatureOf(b))

\* C13: get_tags returns ["no-log-file"] when the log file does not exist;
\* otherwise it returns, sorted by name and without repeats, matched tags
\* only, none of them with a signature that is a substring of another matched
\* tag's signature, and every matched tag is returned or has its signature
\* inside the signature of a returned tag (so a match never gives []).
C13_MinimalCover ==
    tgpc = "returned" =>
        IF ~logpath.exists THEN tags = <<"no-log-file">>
        ELSE /\ \A i, j \in DOMAIN tags : i < j => StrRank(tags[i]) < StrRank(tags[j])
             /\ Returned \subseteq Matched
             /\ \A a \in Returned : \A b \in Matched : ~Subsumes(b, a)
             /\ \A m \in Matched :
                   m \in Returned \/ \E r \in Returned : Subsumes(r, m)
             /\ Matched # {} => tags # <<>>
C13_Witness ==
    /\ tgpc = "returned"
    /\ logpath.exists
    /\ Matched = {"latex-error", "not-latex", "undefined-control-sequence"}
    /\ tags = <<"not-latex", "undefined-control-sequence">>

\* C14 as stated: when the signature of A is a substring of the signature of
\* B and both match, the tag of B is absent from the result.
C14_LongerSuppressed ==
    (tgpc = "returned" /\ logpath.exists) =>
        \A a, b \in Matched : Subsumes(b, a) => b \notin Returned
\* C14 as amended: when the signature of A is a substring of the signature of
\* B and both match, the tag of A is absent from the result, and the tag of B
\* is in it unless B's signature is in turn inside another matched one.
C14_ShorterSuppressed ==
    (tgpc = "returned" /\ logpath.exists) =>
        \A a, b \in Matched : Subsumes(b, a) =>
            /\ a \notin Returned
            /\ b \in Returned \/ \E c \in Matched : Subsumes(c, b)
C14_Witness ==
    /\ tgpc = "returned"
    /\ logpath.exists
    /\ {"latex-error", "latex-file-not-found"} \subseteq Matched
    /\ "latex-file-not-found" \in Returned
    /\ "latex-error" \notin Returned

\* C15: the pool shuts down in order: once a sentinel has been put, every
\* queued sample has been taken and marked done (its worker may still have
\* its record to write); the log is closed only when every worker thread has
\* exited; and no worker ever finds the log closed when it writes.
SentinelPut ==
    \/ \E i \in DOMAIN work : work[i] = NoItem
    \/ mainpc = "put_none" /\ mainidx > 1
    \/ mainpc \in {"join_threads", "close", "done"}
MarkedDone(w) == wpc[w] \in {"acquire", "write", "flush"}
C15_ShutdownOrder ==
    program = "report_ci" =>
        /\ SentinelPut =>
              \A s \in Queued :
                  /\ \A i \in DOMAIN work : work[i] # s
                  /\ \A w \in Workers : witem[w] = s => MarkedDone(w)
        /\ logstate = "closed" => \A w \in Workers : wpc[w] = "exited"
        /\ \A w \in Workers : wexc[w] # "ValueError"
C15_Witness ==
    /\ program = "report_ci"
    /\ \E i \in DOMAIN work : work[i] = NoItem
    /\ \E w \in Workers : wpc[w] = "write" /\ witem[w] \in Queued /\ ~HasRecord(witem[w])

\* C16: the results of a sample's record hold every regular file of its
\* workspace root after the compile whose digest is not the digest of a file
\* of that same workspace before the compile; what was in another sample's
\* workspace never keeps a file out.
SampleOf(stem) == CHOOSE s \in DOMAIN corpus : Stem(s) = stem
WorkspaceBefore(s) ==
    IF program = "report_ci"
    THEN TestEnvFiles_ci(corpus[s], Stem(s), is_tar_ci(s))
    ELSE TestEnvFiles_r(corpus[s], Stem(s))
WorkspaceAfter(s, statuscode) ==
    WorkspaceBefore(s) \o CompilerOutputs(Stem(s), statuscode)
DigestsOf(d) == { sha256sum16(d[i].content) : i \in {j \in DOMAIN d : d[j].is_file} }
ProducedNames(s, statuscode) ==
    LET after == WorkspaceAfter(s, statuscode)
    IN { after[i].name : i \in {j \in DOMAIN after :
            /\ after[j].is_file
            /\ sha256sum16(after[j].content) \notin DigestsOf(WorkspaceBefore(s))} }
C16_ProducedFilesReported ==
    \A i \in DOMAIN Records :
        ProducedNames(SampleOf(Records[i].sample), Records[i].statuscode)
            \subseteq DOMAIN Records[i].results

\* C18: whenever TestEnv.__init__ has returned for a sample of the entry
\* map, the payload was untarred if and only if it is a tar archive: the
\* mode report_ci derives from the entry name is the content-sniffed mode.
TestEnvReturned(w) == wpc[w] \in {"compile", "task_done", "acquire", "write", "flush"}
C18_ModeAgrees ==
    program = "report_ci" =>
        \A w \in Workers :
            TestEnvReturned(w) => (is_tar_ci(witem[w]) <=> SniffedTar(corpus[witem[w]]))

\* C17: every object-store name is opened for writing at most once, and an
\* object whose copy has been completed stays in the store with its whole
\* content, whatever the other workers do.
C17_WrittenOnce ==
    /\ \A n \in DOMAIN opens : opens[n] <= 1
    /\ \A n \in sealed : n \in DOMAIN objects /\ objects[n] = n[1].sha

\* C19: when a worker appends its ReportRecord to the log, every object its
\* results map names exists in the object store and holds the whole content
\* of the captured file.
RefsWhole(results) ==
    \A name \in DOMAIN results :
        /\ results[name] \in DOMAIN objects
        /\ objects[results[name]] = results[name][1].sha
C19_ReferencedObjectsWhole ==
    [][\A w \in Workers :
          (wpc[w] = "write" /\ wpc'[w] = "flush") => RefsWhole(wreport[w].results)]_vars

====
